---- MODULE Spec2Model ----
(***************************************************************************)
(* Chain validation / dependency / execution engine of the Langfuse        *)
(* adaptor: ChainManager (sdk/chain-manager) on top of LangfuseAdapter's   *)
(* in-memory chain store.                                                  *)
(*                                                                         *)
(* Modelling conventions                                                   *)
(*  - The adapter is modelled between connect() and disconnect():          *)
(*    ensureConnected() passes.                                            *)
(*  - Step names are strings; "constructor" stands for the names that     *)
(*    are properties of Object.prototype, which a lookup in a plain        *)
(*    object ({}) finds although nothing was stored under them.            *)
(*  - A version string "M.m.p" is the triple <<M, m, p>>.                  *)
(*  - uuidv4() is a fresh value: one counter per call site family.         *)
(*  - An async call is cut at the awaits at which another call can         *)
(*    observe or change the chain store.                                   *)
(*  - description/label/tags are merged by updateChain exactly like        *)
(*    executionOrder (request.x || existing.x); executionOrder stands for  *)
(*    them.                                                                *)
(*  - Step a uses the prompt "r1", every other step the template "r2";     *)
(*    the prompt is deleted and created again during a run.                *)
(*  - prev and returned record what earlier calls returned; no action      *)
(*    reads them.                                                          *)
(***************************************************************************)
EXTENDS Integers, Sequences, FiniteSets, TLC

VARIABLES
  returned,    \* the executionIds executeChain returned so far, each with whether another
               \* executeChain call was in flight when it returned (a record of the past)
  ops,         \* the operations each caller issues and, third, the version
               \* arguments they pass to validateChain (fixed for a run)
  prev,        \* the report of the last validateChain call for a chain, while the chains and
               \* the resources are as that call saw them (a record of the past)
  chains,      \* LangfuseAdapter.chains: chain id -> ChainResponse (NoChain: no entry)
  resources,   \* the prompt / template ids that resolve
  nextChain,   \* uuidv4() of LangfuseAdapter.createChain (chain id)
  nextStep,    \* uuidv4() of the step ids
  nextExec,    \* uuidv4() of LangfuseAdapter.executeChain (executionId)
  proc,        \* the calls in progress: position and locals of each caller
  last,        \* the outcome of the call the latest step completed (NoCall: none)
  okUpdates,   \* number of updateChain calls that have resolved
  input,       \* the chain given to the graph checks (SpecGraph)
  output       \* their results (SpecGraph)

vars == <<chains, resources, nextChain, nextStep, nextExec, proc, last, okUpdates, input, output,
          prev, ops, returned>>

----------------------------------------------------------------------------
(* Bounds *)

MaxUpdates == 2

MaxExec == 1

MaxGMap == 3

\* largest step order of the chains generated with free orders
MaxOrder == 3

----------------------------------------------------------------------------
(* Values *)

\* an optional request field: absent, or <<value>>
Absent == <<>>

Some(x) == <<x>>

IsSome(o) == Len(o) = 1

Procs == {1, 2}

NameSeq == <<"a", "b", "c", "d">>

\* a second list of step names, one of them a property of Object.prototype
ProtoSeq == <<"a", "constructor">>

NameSeqs == {NameSeq, ProtoSeq}

\* four steps of which the second has a name of Object.prototype
ProtoSeq4 == <<"a", "constructor", "c", "d">>

GNames(names) == {names[i] : i \in 1..Len(names)}

ChainIds == {1}

\* "r1" is a prompt held by Langfuse, "r2" a template of LangfuseAdapter.templates
ResIds == {"r1", "r2"}

\* the resources that are deleted and created again while the callers run
\* (a Langfuse prompt is looked up by name, so it can come back)
Dynamic == {"r1"}

ExecutionOrder == {"sequential", "parallel"}

ResourceOf(name) == IF name = "a" THEN "r1" ELSE "r2"

TypeOf(name) == IF name = "a" THEN "prompt" ELSE "template"

SeqsUpTo(S, n) == UNION {[1..k -> S] : k \in 0..n}

Edge(f, t) == [fromStep |-> f, toStep |-> t]

Err(k, a) == [kind |-> k, args |-> a]

InitialVersion == <<1, 0, 0>>

\* no entry in the adapter's chains map
NoChain ==
  [id |-> 0, steps |-> <<>>, executionOrder |-> "none", dataMapping |-> <<>>, version |-> <<0, 0, 0>>]

\* semver.inc(v, 'patch')
IncMinor_Patch(v) == <<v[1], v[2], v[3] + 1>>

\* semver.inc(v, 'minor')
IncMinor(v) == <<v[1], v[2] + 1, 0>>

\* VersionManager.isValidVersion: semver.valid(version) !== null
isValidVersion(v) == Len(v) = 3 /\ \A i \in 1..3 : v[i] \in Nat

----------------------------------------------------------------------------
(* utils/validation.ts *)

\* orders sorted ascending, as steps.map(s => s.order).sort((a, b) => a - b)
RECURSIVE SortedOrders(_)
SortedOrders(S) ==
  IF S = {} THEN <<>>
  ELSE LET i == CHOOSE x \in S : \A y \in S : x[2] < y[2] \/ (x[2] = y[2] /\ x[1] <= y[1])
       IN <<i[2]>> \o SortedOrders(S \ {i})

\* the errors array of validateChainSteps: per step a duplicate-name and an
\* invalid-order entry, then the first break of the order sequence
chainStepErrors(steps) ==
  LET n == Len(steps)
      orders == SortedOrders({<<i, steps[i].order>> : i \in 1..n})
      perStep(j) ==
        (IF \E i \in 1..(j - 1) : steps[i].name = steps[j].name
         THEN <<Err("duplicate_name", <<steps[j].name>>)>> ELSE <<>>)
        \o (IF steps[j].order < 0 \/ steps[j].order >= n
            THEN <<Err("invalid_order", <<steps[j].name>>)>> ELSE <<>>)
      RECURSIVE loop(_)
      loop(j) == IF j > n THEN <<>> ELSE perStep(j) \o loop(j + 1)
  IN loop(1) \o (IF \E i \in 1..n : orders[i] # i - 1
                 THEN <<Err("not_continuous", <<>>)>> ELSE <<>>)

\* validateChainSteps without its test for duplicate step names
validateChainSteps_NoDuplicateTest(steps) ==
  LET n == Len(steps)
      badOrder == \E i \in 1..n : steps[i].order < 0 \/ steps[i].order >= n
      orders == SortedOrders({<<i, steps[i].order>> : i \in 1..n})
      notContinuous == \E i \in 1..n : orders[i] # i - 1
  IN ~badOrder /\ ~notContinuous

validateChainSteps(steps) ==
  LET n == Len(steps)
      dup == \E i, j \in 1..n : i < j /\ steps[i].name = steps[j].name
      badOrder == \E i \in 1..n : steps[i].order < 0 \/ steps[i].order >= n
      orders == SortedOrders({<<i, steps[i].order>> : i \in 1..n})
      notContinuous == \E i \in 1..n : orders[i] # i - 1
  IN ~dup /\ ~badOrder /\ ~notContinuous

validateDataMapping(dataMapping, steps) ==
  LET stepNames == {steps[i].name : i \in 1..Len(steps)}
  IN \A k \in 1..Len(dataMapping) :
        /\ dataMapping[k].fromStep \in stepNames
        /\ dataMapping[k].toStep \in stepNames
        /\ dataMapping[k].fromStep # dataMapping[k].toStep

----------------------------------------------------------------------------
(* ChainManager graph checks *)

\* names that graph = {} already answers with an inherited property of
\* Object.prototype: graph[name] is then neither undefined nor an array
ProtoNames == {"constructor"}

\* "Build dependency graph": graph[mapping.fromStep].push throws a TypeError
\* when fromStep is such a name
BuildThrows(dataMapping) ==
  \E k \in 1..Len(dataMapping) : dataMapping[k].fromStep \in ProtoNames

\* graph[node] || [] : the toSteps of the mappings leaving node, in mapping
\* order (for a node of ProtoNames the inherited property, which for..of
\* cannot iterate)
Neighbors(dataMapping, node) ==
  LET out == SelectSeq(dataMapping, LAMBDA m : m.fromStep = node)
  IN [i \in 1..Len(out) |-> out[i].toStep]

RECURSIVE hasCycle(_, _, _)
RECURSIVE hasCycleLoop(_, _, _, _)

hasCycleLoop(node, i, dataMapping, st) ==
  LET neighbors == Neighbors(dataMapping, node)
  IN IF node \in ProtoNames THEN [st EXCEPT !.threw = TRUE]
     ELSE IF i > Len(neighbors)
     THEN [st EXCEPT !.recursionStack = @ \ {node}, !.found = FALSE]
     ELSE LET neighbor == neighbors[i]
          IN IF neighbor \notin st.visited
             THEN LET r == hasCycle(neighbor, dataMapping, st)
                  IN IF r.threw \/ r.found THEN r ELSE hasCycleLoop(node, i + 1, dataMapping, r)
             ELSE IF neighbor \in st.recursionStack
             THEN [st EXCEPT !.circularDeps = Append(@, <<node, neighbor>>), !.found = TRUE]
             ELSE hasCycleLoop(node, i + 1, dataMapping, st)

hasCycle(node, dataMapping, st) ==
  hasCycleLoop(node, 1, dataMapping,
               [st EXCEPT !.visited = @ \cup {node}, !.recursionStack = @ \cup {node}])

RECURSIVE detectLoop(_, _, _, _)
detectLoop(steps, i, dataMapping, st) ==
  IF i > Len(steps) \/ st.threw THEN st
  ELSE IF steps[i].name \notin st.visited
       THEN detectLoop(steps, i + 1, dataMapping, hasCycle(steps[i].name, dataMapping, st))
       ELSE detectLoop(steps, i + 1, dataMapping, st)

\* what a private check of ChainManager does: it returns value, or throws
Returned(v) == [threw |-> FALSE, value |-> v]

TypeError == [threw |-> TRUE, value |-> <<>>]

\* returns the list of reported edges <<node, neighbor>> ("node -> neighbor")
detectCircularDependencies(steps, dataMapping) ==
  LET st == detectLoop(steps, 1, dataMapping,
                       [visited |-> {}, recursionStack |-> {}, circularDeps |-> <<>>,
                        found |-> FALSE, threw |-> FALSE])
  IN IF BuildThrows(dataMapping) \/ st.threw THEN TypeError ELSE Returned(st.circularDeps)

RECURSIVE bfsNeighbors(_, _, _, _)
bfsNeighbors(neighbors, i, queue, reachable) ==
  IF i > Len(neighbors) THEN [queue |-> queue, reachable |-> reachable]
  ELSE IF neighbors[i] \notin reachable
       THEN bfsNeighbors(neighbors, i + 1, Append(queue, neighbors[i]), reachable \cup {neighbors[i]})
       ELSE bfsNeighbors(neighbors, i + 1, queue, reachable)

\* the while loop: the set reached, or TypeError
RECURSIVE bfs(_, _, _)
bfs(queue, reachable, dataMapping) ==
  IF queue = <<>> THEN Returned(reachable)
  ELSE IF Head(queue) \in ProtoNames THEN TypeError
  ELSE LET r == bfsNeighbors(Neighbors(dataMapping, Head(queue)), 1, Tail(queue), reachable)
       IN bfs(r.queue, r.reachable, dataMapping)

findUnreachableSteps(steps, dataMapping) ==
  IF Len(steps) <= 1 THEN Returned(<<>>)
  ELSE IF BuildThrows(dataMapping) THEN TypeError
  ELSE LET zero == {i \in 1..Len(steps) : steps[i].order = 0}
           reachable == IF zero = {} THEN Returned({})
                        ELSE LET firstStep == steps[CHOOSE i \in zero : \A j \in zero : i <= j].name
                             IN bfs(<<firstStep>>, {firstStep}, dataMapping)
           names == [i \in 1..Len(steps) |-> steps[i].name]
       IN IF reachable.threw THEN TypeError
          ELSE Returned(SelectSeq(names, LAMBDA n : n \notin reachable.value))

\* [...steps].sort((a, b) => a.order - b.order), a stable sort
RECURSIVE sortByOrder(_, _)
sortByOrder(steps, S) ==
  IF S = {} THEN <<>>
  ELSE LET i == CHOOSE x \in S : \A y \in S :
                   steps[x].order < steps[y].order \/ (steps[x].order = steps[y].order /\ x <= y)
       IN <<steps[i]>> \o sortByOrder(steps, S \ {i})

validateSequentialOrder(steps) ==
  LET sortedSteps == sortByOrder(steps, 1..Len(steps))
      gaps == {i \in 1..(Len(sortedSteps) - 1) : sortedSteps[i + 1].order - sortedSteps[i].order > 1}
      RECURSIVE collect(_)
      collect(i) == IF i > Len(sortedSteps) - 1 THEN <<>>
                    ELSE (IF i \in gaps
                          THEN <<Err("gap", <<sortedSteps[i].name, sortedSteps[i + 1].name>>)>>
                          ELSE <<>>) \o collect(i + 1)
  IN collect(1)

----------------------------------------------------------------------------
(* validateChain *)

RECURSIVE Flatten(_)
Flatten(pairs) ==
  IF pairs = <<>> THEN <<>> ELSE <<Head(pairs)[1], Head(pairs)[2]>> \o Flatten(Tail(pairs))

\* LangfuseAdapter.validateChain on the chain its own getChain returned
\* (NoChain: getChain threw "not found", caught by the adapter)
AdapterValidateChain(chain, res) ==
  IF chain = NoChain
  THEN [valid |-> FALSE, errors |-> <<Err("not_found", <<>>)>>]
  ELSE LET missing == SelectSeq(chain.steps, LAMBDA s : s.resourceId \notin res)
           errors == [i \in 1..Len(missing) |-> Err("missing_resource", <<missing[i].name>>)]
       IN [valid |-> errors = <<>>, errors |-> errors]

\* validateChain without its test of chain.steps.length
ManagerValidateChain_NoStepsTest(chain, adapterValidation) ==
  LET e1 == IF ~adapterValidation.valid THEN adapterValidation.errors ELSE <<>>
      e2 == <<>>
      circularDeps == detectCircularDependencies(chain.steps, chain.dataMapping)
      e3 == IF Len(circularDeps.value) > 0
            THEN <<Err("circular", Flatten(circularDeps.value))>> ELSE <<>>
      unreachableSteps == findUnreachableSteps(chain.steps, chain.dataMapping)
      w1 == IF Len(unreachableSteps.value) > 0
            THEN <<Err("unreachable", unreachableSteps.value)>> ELSE <<>>
      w2 == IF chain.executionOrder = "sequential" THEN validateSequentialOrder(chain.steps) ELSE <<>>
      e4 == IF ~isValidVersion(chain.version) THEN <<Err("bad_version", <<>>)>> ELSE <<>>
      caught == <<Err("retrieve_failed", <<"TypeError">>)>>
      errors == IF circularDeps.threw THEN e1 \o e2 \o caught
                ELSE IF unreachableSteps.threw THEN e1 \o e2 \o e3 \o caught
                ELSE e1 \o e2 \o e3 \o e4
      warnings == IF circularDeps.threw \/ unreachableSteps.threw THEN <<>> ELSE w1 \o w2
  IN [valid |-> Len(errors) = 0, errors |-> errors, warnings |-> warnings]

\* validateChain with warnings counted against valid
ManagerValidateChain_WarningsCount(chain, adapterValidation) ==
  LET e1 == IF ~adapterValidation.valid THEN adapterValidation.errors ELSE <<>>
      e2 == IF Len(chain.steps) = 0 THEN <<Err("no_steps", <<>>)>> ELSE <<>>
      circularDeps == detectCircularDependencies(chain.steps, chain.dataMapping)
      e3 == IF Len(circularDeps.value) > 0
            THEN <<Err("circular", Flatten(circularDeps.value))>> ELSE <<>>
      unreachableSteps == findUnreachableSteps(chain.steps, chain.dataMapping)
      w1 == IF Len(unreachableSteps.value) > 0
            THEN <<Err("unreachable", unreachableSteps.value)>> ELSE <<>>
      w2 == IF chain.executionOrder = "sequential" THEN validateSequentialOrder(chain.steps) ELSE <<>>
      e4 == IF ~isValidVersion(chain.version) THEN <<Err("bad_version", <<>>)>> ELSE <<>>
      caught == <<Err("retrieve_failed", <<"TypeError">>)>>
      errors == IF circularDeps.threw THEN e1 \o e2 \o caught
                ELSE IF unreachableSteps.threw THEN e1 \o e2 \o e3 \o caught
                ELSE e1 \o e2 \o e3 \o e4
      warnings == IF circularDeps.threw \/ unreachableSteps.threw THEN <<>> ELSE w1 \o w2
  IN [valid |-> Len(errors) = 0 /\ Len(warnings) = 0, errors |-> errors, warnings |-> warnings]

\* ChainManager.validateChain after both reads: chain is the manager's own
\* snapshot, adapterValidation the result of adapter.validateChain; a
\* TypeError of a graph check ends the try block in its catch branch, with
\* the errors and warnings pushed so far
ManagerValidateChain(chain, adapterValidation) ==
  LET e1 == IF ~adapterValidation.valid THEN adapterValidation.errors ELSE <<>>
      e2 == IF Len(chain.steps) = 0 THEN <<Err("no_steps", <<>>)>> ELSE <<>>
      circularDeps == detectCircularDependencies(chain.steps, chain.dataMapping)
      e3 == IF Len(circularDeps.value) > 0
            THEN <<Err("circular", Flatten(circularDeps.value))>> ELSE <<>>
      unreachableSteps == findUnreachableSteps(chain.steps, chain.dataMapping)
      w1 == IF Len(unreachableSteps.value) > 0
            THEN <<Err("unreachable", unreachableSteps.value)>> ELSE <<>>
      w2 == IF chain.executionOrder = "sequential" THEN validateSequentialOrder(chain.steps) ELSE <<>>
      e4 == IF ~isValidVersion(chain.version) THEN <<Err("bad_version", <<>>)>> ELSE <<>>
      caught == <<Err("retrieve_failed", <<"TypeError">>)>>
      errors == IF circularDeps.threw THEN e1 \o e2 \o caught
                ELSE IF unreachableSteps.threw THEN e1 \o e2 \o e3 \o caught
                ELSE e1 \o e2 \o e3 \o e4
      warnings == IF circularDeps.threw \/ unreachableSteps.threw THEN <<>> ELSE w1 \o w2
  IN [valid |-> Len(errors) = 0, errors |-> errors, warnings |-> warnings]

\* the catch branch of ChainManager.validateChain when its getChain throws
RetrieveFailed ==
  [valid |-> FALSE, errors |-> <<Err("retrieve_failed", <<"not_found">>)>>, warnings |-> <<>>]

----------------------------------------------------------------------------
(* ChainManager execution plan *)

\* steps.find(s => s.name === name)?.id
findStepId(steps, name) ==
  LET S == {i \in 1..Len(steps) : steps[i].name = name}
  IN IF S = {} THEN Absent ELSE Some(steps[CHOOSE i \in S : \A j \in S : i <= j].id)

\* "Build dependencies from data mapping": the loop over dataMapping from entry k on
RECURSIVE buildLoop(_, _, _, _)
buildLoop(steps, dataMapping, k, graph) ==
  IF k > Len(dataMapping) THEN graph
  ELSE LET fromStepId == findStepId(steps, dataMapping[k].fromStep)
           toStepId == findStepId(steps, dataMapping[k].toStep)
       IN IF IsSome(fromStepId) /\ IsSome(toStepId)
          THEN LET g1 == [graph EXCEPT ![toStepId[1]].dependencies = Append(@, fromStepId[1])]
                   g2 == [g1 EXCEPT ![fromStepId[1]].dependents = Append(@, toStepId[1])]
               IN buildLoop(steps, dataMapping, k + 1, g2)
          ELSE buildLoop(steps, dataMapping, k + 1, graph)

\* buildDependencyGraph that reads every mapping in the wrong direction
buildDependencyGraph_Reversed(steps, dataMapping) ==
  buildLoop(steps, [k \in 1..Len(dataMapping) |->
                      Edge(dataMapping[k].toStep, dataMapping[k].fromStep)], 1,
            [id \in {steps[i].id : i \in 1..Len(steps)} |->
               [dependencies |-> <<>>, dependents |-> <<>>]])

\* ChainManager.buildDependencyGraph: a record per step id
buildDependencyGraph(steps, dataMapping) ==
  buildLoop(steps, dataMapping, 1,
            [id \in {steps[i].id : i \in 1..Len(steps)} |->
               [dependencies |-> <<>>, dependents |-> <<>>]])

\* ChainManager.getChainExecutionPlan on the chain its getChain returned
getChainExecutionPlan(chain) ==
  LET stepDependencies == buildDependencyGraph(chain.steps, chain.dataMapping)
  IN [executionOrder |-> chain.executionOrder,
      steps |-> [i \in 1..Len(chain.steps) |->
                   [stepId |-> chain.steps[i].id, stepName |-> chain.steps[i].name,
                    order |-> chain.steps[i].order,
                    dependencies |-> stepDependencies[chain.steps[i].id].dependencies,
                    dependents |-> stepDependencies[chain.steps[i].id].dependents]]]

NoPlan == [executionOrder |-> "none", steps |-> <<>>]

----------------------------------------------------------------------------
(* Inputs of the graph checks *)

\* self loops are left to the store model
GEdges(names) == {Edge(e[1], e[2]) : e \in {x \in GNames(names) \X GNames(names) : x[1] # x[2]}}

OrderFor(i, z) == IF z = 0 THEN i ELSE IF i = z THEN 0 ELSE IF i < z THEN i ELSE i - 1

GSteps(names, n, z) ==
  [i \in 1..n |-> [id |-> i, name |-> names[i], type |-> TypeOf(names[i]),
                   resourceId |-> ResourceOf(names[i]), order |-> OrderFor(i, z)]]

GraphInput(names, n, z, eo, dm) ==
  [id |-> 1, steps |-> GSteps(names, n, z), executionOrder |-> eo, dataMapping |-> dm,
   version |-> InitialVersion]

\* a chain whose steps carry any orders (gaps and ties included), as an adapter
\* other than LangfuseAdapter may return it
OrderedSteps(names, ord) ==
  [i \in 1..Len(ord) |-> [id |-> i, name |-> names[i], type |-> TypeOf(names[i]),
                          resourceId |-> ResourceOf(names[i]), order |-> ord[i]]]

OrderedInput(names, ord, eo, dm) ==
  [id |-> 1, steps |-> OrderedSteps(names, ord), executionOrder |-> eo, dataMapping |-> dm,
   version |-> InitialVersion]

----------------------------------------------------------------------------
(* Requests *)

ReqStep(name, order) ==
  [name |-> name, type |-> TypeOf(name), resourceId |-> ResourceOf(name), order |-> order]

CreateReq(st, eo, dm) == [steps |-> st, executionOrder |-> eo, dataMapping |-> dm]

\* createChain requests: a linear chain, a cyclic one, one with permuted
\* orders and no dataMapping key, a linear one of three steps, a cyclic one
\* with a step named
\* "constructor"; then no step, a duplicate name, an order
\* conflict, a self loop, a mapping to a step that is not in the request
CreateRequests ==
  { CreateReq(<<ReqStep("a", 0), ReqStep("b", 1)>>, "sequential", Some(<<Edge("a", "b")>>)),
    CreateReq(<<ReqStep("a", 0), ReqStep("b", 1)>>, "sequential",
              Some(<<Edge("a", "b"), Edge("b", "a")>>)),
    CreateReq(<<ReqStep("b", 1), ReqStep("a", 0)>>, "parallel", Absent),
    CreateReq(<<ReqStep("b", 0), ReqStep("a", 1), ReqStep("c", 2)>>, "sequential",
              Some(<<Edge("b", "a"), Edge("a", "c")>>)),
    CreateReq(<<ReqStep("a", 0), ReqStep("constructor", 1)>>, "sequential",
              Some(<<Edge("a", "constructor"), Edge("constructor", "a")>>)),
    CreateReq(<<>>, "sequential", Absent),
    CreateReq(<<ReqStep("a", 0), ReqStep("a", 1)>>, "sequential", Absent),
    CreateReq(<<ReqStep("a", 0), ReqStep("b", 0)>>, "sequential", Absent),
    CreateReq(<<ReqStep("a", 0), ReqStep("b", 1)>>, "sequential", Some(<<Edge("a", "a")>>)),
    CreateReq(<<ReqStep("a", 0)>>, "sequential", Some(<<Edge("a", "b")>>)) }

UpdReq(st, eo, dm) == [steps |-> st, executionOrder |-> eo, dataMapping |-> dm]

\* updateChain requests: no key at all, one scalar key, dataMapping only (a
\* self loop), steps only, both (orders permuted), a self loop with steps, a
\* duplicate name
UpdateRequests ==
  { UpdReq(Absent, Absent, Absent),
    UpdReq(Absent, Some("parallel"), Absent),
    UpdReq(Absent, Absent, Some(<<Edge("a", "a")>>)),
    UpdReq(Some(<<ReqStep("b", 0)>>), Absent, Absent),
    UpdReq(Some(<<ReqStep("b", 1), ReqStep("a", 0)>>), Absent, Some(<<Edge("b", "a")>>)),
    UpdReq(Some(<<ReqStep("a", 0), ReqStep("b", 1)>>), Absent, Some(<<Edge("b", "b")>>)),
    UpdReq(Some(<<ReqStep("a", 0), ReqStep("a", 1)>>), Absent, Absent) }

\* chain ids a caller may pass: 0 is the empty string
ChainIdInputs == {0} \cup ChainIds

\* Joi createChainSchema: steps is an array of at least one step
SchemaCreate(req) == Len(req.steps) >= 1

\* Joi updateChainSchema: at least one key; steps, when given, has at least one step
SchemaUpdate(req) ==
  /\ IsSome(req.steps) \/ IsSome(req.executionOrder) \/ IsSome(req.dataMapping)
  /\ IsSome(req.steps) => Len(req.steps[1]) >= 1

\* ChainManager.validateResourceReferences
validateResourceReferences(steps, res) == \A i \in 1..Len(steps) : steps[i].resourceId \in res

----------------------------------------------------------------------------
(* LangfuseAdapter chain store *)

\* steps stored with orders counted from 1
StoredSteps_OneBased(steps, base) ==
  [i \in 1..Len(steps) |->
     [id |-> base + i - 1, name |-> steps[i].name, type |-> steps[i].type,
      resourceId |-> steps[i].resourceId, order |-> i]]

\* request.steps.map((step, index) => ({...step, id: uuidv4(), order: index}))
StoredSteps(steps, base) ==
  [i \in 1..Len(steps) |->
     [id |-> base + i - 1, name |-> steps[i].name, type |-> steps[i].type,
      resourceId |-> steps[i].resourceId, order |-> i - 1]]

AdapterCreateChain(id, req, base) ==
  [id |-> id, steps |-> StoredSteps(req.steps, base), executionOrder |-> req.executionOrder,
   dataMapping |-> IF IsSome(req.dataMapping) THEN req.dataMapping[1] ELSE <<>>,
   version |-> InitialVersion]

AdapterUpdateChain(existing, req, base) ==
  [existing EXCEPT
     !.steps = IF IsSome(req.steps) THEN StoredSteps(req.steps[1], base) ELSE @,
     !.executionOrder = IF IsSome(req.executionOrder) THEN req.executionOrder[1] ELSE @,
     !.dataMapping = IF IsSome(req.dataMapping) THEN req.dataMapping[1] ELSE @,
     !.version = IncMinor(@)]

\* executeChain that lists the step results last step first
AdapterExecuteChain_Reversed(chain, executionId) ==
  [chainId |-> chain.id, executionId |-> executionId, status |-> "success",
   stepResults |-> [i \in 1..Len(chain.steps) |->
                      [stepId |-> chain.steps[Len(chain.steps) + 1 - i].id, status |-> "success"]]]

\* executeChain that reports an error for the last step and still status success
AdapterExecuteChain_LastStepError(chain, executionId) ==
  [chainId |-> chain.id, executionId |-> executionId, status |-> "success",
   stepResults |-> [i \in 1..Len(chain.steps) |->
                      [stepId |-> chain.steps[i].id,
                       status |-> IF i = Len(chain.steps) THEN "error" ELSE "success"]]]

\* executeChain that derives the executionId from the chain id
AdapterExecuteChain_IdOfChain(chain, executionId) ==
  [chainId |-> chain.id, executionId |-> chain.id, status |-> "success",
   stepResults |-> [i \in 1..Len(chain.steps) |-> [stepId |-> chain.steps[i].id, status |-> "success"]]]

\* LangfuseAdapter.executeChain on the chain its getChain returned
AdapterExecuteChain(chain, executionId) ==
  [chainId |-> chain.id, executionId |-> executionId, status |-> "success",
   stepResults |-> [i \in 1..Len(chain.steps) |-> [stepId |-> chain.steps[i].id, status |-> "success"]]]

----------------------------------------------------------------------------
(* Calls *)

NoReq == UpdReq(Absent, Absent, Absent)

Idle == [op |-> "idle", pc |-> "idle", id |-> 0, req |-> NoReq, chain |-> NoChain, version |-> Absent]

NoReport == [valid |-> FALSE, errors |-> <<>>, warnings |-> <<>>]

NoExec == [chainId |-> 0, executionId |-> 0, status |-> "none", stepResults |-> <<>>]

\* outcome of a call on chain id (0: the empty string): status "ok" (resolved)
\* or "thrown" (rejected: error is the kind of the Error, errors the
\* validation errors of its message); report: what validateChain resolved
\* with; exec: what executeChain resolved with; first / second: the chains
\* the two getChain reads of a validateChain or executeChain call returned,
\* for an updateChain that resolved the chain LangfuseAdapter.updateChain read
\* and the chain stored when it wrote, for one that threw the chain stored
\* then (second); steps: the steps of the request of a createChain or
\* updateChain that resolved, when it had any; version: the version argument
\* of a validateChain call, when it had one
Outcome(op, id, status) ==
  [op |-> op, id |-> id, status |-> status, error |-> "", errors |-> <<>>, report |-> NoReport,
   exec |-> NoExec, first |-> NoChain, second |-> NoChain, steps |-> Absent, version |-> Absent]

NoCall == Outcome("none", 0, "none")

Thrown(op, id, kind) == [Outcome(op, id, "thrown") EXCEPT !.error = kind]

Ok(op, id) == Outcome(op, id, "ok")

\* an updateChain call that threw
Rejected(id, kind) ==
  [Thrown("update", id, kind) EXCEPT !.second = IF id \in ChainIds THEN chains[id] ELSE NoChain]

\* the version argument of validateChain: none, "1.0.0", "1.0"
VersionInputs == {Absent, Some(InitialVersion), Some(<<1, 0>>)}

\* the callers of a run: either caller 1 issues every operation and caller 2
\* the ones that write a stored chain, so that they overlap with every
\* operation of caller 1; or caller 1 creates and both execute; or caller 1
\* creates and validates, with no version argument, a well-formed one or a
\* malformed one
CallerOps ==
  { <<{"create", "update", "delete", "validate", "execute"}, {"update", "delete"}, {Absent}>>,
    <<{"create", "execute"}, {"execute"}, {Absent}>>,
    <<{"create", "validate"}, {}, VersionInputs>> }

\* the version arguments the callers of the run pass
Versions == ops[3]

OpsOf(p) == ops[p]

Free(p, op) == proc[p].pc = "idle" /\ op \in OpsOf(p)

InFlight(op) == Cardinality({q \in Procs : proc[q].op = op})

Finish(p, r) == proc' = [proc EXCEPT ![p] = Idle] /\ last' = r

\* the record of the last validateChain report, kept for the next validateChain
\* call of the same caller: forgotten when a chain or a resource changes, when
\* the caller issues another operation, and after the second call; taken when
\* a call that saw one snapshot returns
NoPrev == [set |-> FALSE, id |-> 0, errors |-> <<>>, warnings |-> <<>>, calls |-> 0]

Track ==
  prev' = IF \/ chains' # chains \/ resources' # resources
             \/ \E p \in Procs : "validate" \in OpsOf(p) /\ proc'[p].op \notin {"idle", "validate"}
          THEN NoPrev
          ELSE IF last'.op = "validate" /\ last'.status = "ok" /\ last'.first = last'.second
          THEN IF prev.set /\ prev.id = last'.id /\ prev.calls = 1
               THEN [prev EXCEPT !.calls = 2]
               ELSE [set |-> TRUE, id |-> last'.id, errors |-> last'.report.errors,
                     warnings |-> last'.report.warnings, calls |-> 1]
          ELSE IF prev.calls = 2 THEN NoPrev
          ELSE prev

\* the executionId of every result executeChain returned
TrackIds ==
  returned' = IF last'.op = "execute" /\ last'.status = "ok"
              THEN Append(returned, [executionId |-> last'.exec.executionId,
                                     overlapped |-> \E q \in Procs : proc'[q].op = "execute"])
              ELSE returned

\* ChainManager.createChain, LangfuseAdapter.createChain
CreateChain(p, req) ==
  /\ Free(p, "create") /\ nextChain \in ChainIds
  /\ UNCHANGED <<resources, nextExec, okUpdates, input, output>>
  /\ IF ~SchemaCreate(req)
     THEN Finish(p, Thrown("create", 0, "schema")) /\ UNCHANGED <<chains, nextChain, nextStep>>
     ELSE IF ~validateChainSteps(req.steps)
     THEN Finish(p, [Thrown("create", 0, "steps") EXCEPT !.errors = chainStepErrors(req.steps)])
          /\ UNCHANGED <<chains, nextChain, nextStep>>
     ELSE IF IsSome(req.dataMapping) /\ ~validateDataMapping(req.dataMapping[1], req.steps)
     THEN Finish(p, Thrown("create", 0, "mapping")) /\ UNCHANGED <<chains, nextChain, nextStep>>
     ELSE IF ~validateResourceReferences(req.steps, resources)
     THEN Finish(p, Thrown("create", 0, "resource")) /\ UNCHANGED <<chains, nextChain, nextStep>>
     ELSE /\ chains' = [chains EXCEPT ![nextChain] = AdapterCreateChain(nextChain, req, nextStep)]
          /\ nextChain' = nextChain + 1
          /\ nextStep' = nextStep + Len(req.steps)
          /\ Finish(p, [Ok("create", nextChain) EXCEPT !.steps = Some(req.steps)])
  /\ Track /\ TrackIds /\ UNCHANGED ops

\* updateChain that persists the request before it validates the dataMapping
UpdateStart_PersistFirst(p, id, req) ==
  /\ Free(p, "update")
  /\ okUpdates + InFlight("update") < MaxUpdates
  /\ UNCHANGED <<resources, nextChain, nextStep, nextExec, okUpdates, input, output>>
  /\ IF id = 0 THEN Finish(p, Rejected(id, "id")) /\ UNCHANGED chains
     ELSE IF ~SchemaUpdate(req) THEN Finish(p, Rejected(id, "schema")) /\ UNCHANGED chains
     ELSE IF chains[id] = NoChain
     THEN Finish(p, Rejected(id, "not_found")) /\ UNCHANGED chains
     ELSE IF IsSome(req.steps) /\ ~validateChainSteps(req.steps[1])
     THEN Finish(p, [Rejected(id, "steps") EXCEPT !.errors = chainStepErrors(req.steps[1])])
          /\ UNCHANGED chains
     ELSE IF IsSome(req.steps) /\ IsSome(req.dataMapping)
             /\ ~validateDataMapping(req.dataMapping[1], req.steps[1])
     THEN /\ chains' = [chains EXCEPT ![id] = AdapterUpdateChain(chains[id], req, nextStep)]
          /\ Finish(p, Rejected(id, "mapping"))
     ELSE IF IsSome(req.steps) /\ ~validateResourceReferences(req.steps[1], resources)
     THEN Finish(p, Rejected(id, "resource")) /\ UNCHANGED chains
     ELSE /\ proc' = [proc EXCEPT ![p] = [Idle EXCEPT !.op = "update", !.pc = "upd_adapter",
                                                       !.id = id, !.req = req]]
          /\ last' = NoCall
          /\ UNCHANGED chains
  /\ Track /\ TrackIds /\ UNCHANGED ops

\* ChainManager.updateChain up to the call of adapter.updateChain: the id
\* and schema tests, the existence check, the validation of the steps, of the
\* dataMapping and of the resource references
UpdateStart(p, id, req) ==
  /\ Free(p, "update")
  /\ okUpdates + InFlight("update") < MaxUpdates
  /\ UNCHANGED <<chains, resources, nextChain, nextStep, nextExec, okUpdates, input, output>>
  /\ IF id = 0 THEN Finish(p, Rejected(id, "id"))
     ELSE IF ~SchemaUpdate(req) THEN Finish(p, Rejected(id, "schema"))
     ELSE IF chains[id] = NoChain THEN Finish(p, Rejected(id, "not_found"))
     ELSE IF IsSome(req.steps) /\ ~validateChainSteps(req.steps[1])
     THEN Finish(p, [Rejected(id, "steps") EXCEPT !.errors = chainStepErrors(req.steps[1])])
     ELSE IF IsSome(req.steps) /\ IsSome(req.dataMapping)
             /\ ~validateDataMapping(req.dataMapping[1], req.steps[1])
     THEN Finish(p, Rejected(id, "mapping"))
     ELSE IF IsSome(req.steps) /\ ~validateResourceReferences(req.steps[1], resources)
     THEN Finish(p, Rejected(id, "resource"))
     ELSE /\ proc' = [proc EXCEPT ![p] = [Idle EXCEPT !.op = "update", !.pc = "upd_adapter",
                                                       !.id = id, !.req = req]]
          /\ last' = NoCall
  /\ Track /\ TrackIds /\ UNCHANGED ops

\* LangfuseAdapter.updateChain up to its await: const existing = await this.getChain(id)
UpdateAdapter(p) ==
  /\ proc[p].pc = "upd_adapter"
  /\ UNCHANGED <<chains, resources, nextChain, nextStep, nextExec, okUpdates, input, output>>
  /\ IF chains[proc[p].id] = NoChain
     THEN Finish(p, Rejected(proc[p].id, "not_found"))
     ELSE proc' = [proc EXCEPT ![p].pc = "upd_write", ![p].chain = chains[proc[p].id]]
          /\ last' = NoCall
  /\ Track /\ TrackIds /\ UNCHANGED ops

\* LangfuseAdapter.updateChain after its await: this.chains.set(id, updated)
UpdateWrite(p) ==
  /\ proc[p].pc = "upd_write"
  /\ chains' = [chains EXCEPT ![proc[p].id] = AdapterUpdateChain(proc[p].chain, proc[p].req, nextStep)]
  /\ nextStep' = IF IsSome(proc[p].req.steps) THEN nextStep + Len(proc[p].req.steps[1]) ELSE nextStep
  /\ okUpdates' = okUpdates + 1
  /\ Finish(p, [Ok("update", proc[p].id) EXCEPT !.first = proc[p].chain, !.second = chains[proc[p].id],
                                               !.steps = proc[p].req.steps])
  /\ UNCHANGED <<resources, nextChain, nextExec, input, output>>
  /\ Track /\ TrackIds /\ UNCHANGED ops

\* ChainManager.deleteChain up to its first await (adapter.getChain)
DeleteStart(p, id) ==
  /\ Free(p, "delete")
  /\ UNCHANGED <<chains, resources, nextChain, nextStep, nextExec, okUpdates, input, output>>
  /\ IF id = 0 THEN Finish(p, Thrown("delete", id, "id"))
     ELSE IF chains[id] = NoChain THEN Finish(p, Thrown("delete", id, "not_found"))
     ELSE proc' = [proc EXCEPT ![p] = [Idle EXCEPT !.op = "delete", !.pc = "del_adapter", !.id = id]]
          /\ last' = NoCall
  /\ Track /\ TrackIds /\ UNCHANGED ops

\* LangfuseAdapter.deleteChain
DeleteAdapter(p) ==
  /\ proc[p].pc = "del_adapter"
  /\ UNCHANGED <<resources, nextChain, nextStep, nextExec, okUpdates, input, output>>
  /\ IF chains[proc[p].id] = NoChain
     THEN Finish(p, Thrown("delete", proc[p].id, "not_found")) /\ UNCHANGED chains
     ELSE chains' = [chains EXCEPT ![proc[p].id] = NoChain] /\ Finish(p, Ok("delete", proc[p].id))
  /\ Track /\ TrackIds /\ UNCHANGED ops

\* validateChain without the try block around its getChain
ValidateStart_Rethrows(p, id, version) ==
  /\ Free(p, "validate") /\ version \in Versions
  /\ UNCHANGED <<chains, resources, nextChain, nextStep, nextExec, okUpdates, input, output>>
  /\ IF id = 0 THEN Finish(p, [Thrown("validate", id, "id") EXCEPT !.version = version])
     ELSE IF chains[id] = NoChain
     THEN Finish(p, [Thrown("validate", id, "not_found") EXCEPT !.version = version])
     ELSE proc' = [proc EXCEPT ![p] = [Idle EXCEPT !.op = "validate", !.pc = "val_adapter",
                                                       !.id = id, !.chain = chains[id],
                                                       !.version = version]]
          /\ last' = NoCall
  /\ Track /\ TrackIds /\ UNCHANGED ops

\* ChainManager.validateChain up to its first await (adapter.getChain, which
\* does not read the version it is passed)
ValidateStart(p, id, version) ==
  /\ Free(p, "validate") /\ version \in Versions
  /\ UNCHANGED <<chains, resources, nextChain, nextStep, nextExec, okUpdates, input, output>>
  /\ IF id = 0 THEN Finish(p, [Thrown("validate", id, "id") EXCEPT !.version = version])
     ELSE IF chains[id] = NoChain
     THEN Finish(p, [Ok("validate", id) EXCEPT !.report = RetrieveFailed, !.version = version])
     ELSE proc' = [proc EXCEPT ![p] = [Idle EXCEPT !.op = "validate", !.pc = "val_adapter",
                                                       !.id = id, !.chain = chains[id],
                                                       !.version = version]]
          /\ last' = NoCall
  /\ Track /\ TrackIds /\ UNCHANGED ops

\* validateChain that repairs what it reports: it empties the dataMapping of
\* a stored chain in which it found a cycle
ValidateAdapter_Repairs(p) ==
  /\ proc[p].pc = "val_adapter"
  /\ UNCHANGED <<resources, nextChain, nextStep, nextExec, okUpdates, input, output>>
  /\ LET report == ManagerValidateChain(proc[p].chain,
                       AdapterValidateChain(chains[proc[p].id], resources))
     IN /\ Finish(p, [Ok("validate", proc[p].id) EXCEPT
                        !.report = report,
                        !.first = proc[p].chain, !.second = chains[proc[p].id],
                        !.version = proc[p].version])
        /\ chains' = IF chains[proc[p].id] # NoChain
                        /\ \E i \in 1..Len(report.errors) : report.errors[i].kind = "circular"
                     THEN [chains EXCEPT ![proc[p].id].dataMapping = <<>>]
                     ELSE chains
  /\ Track /\ TrackIds /\ UNCHANGED ops

\* LangfuseAdapter.validateChain (its own getChain, the resource lookups),
\* then the rest of ChainManager.validateChain on the manager's snapshot
ValidateAdapter(p) ==
  /\ proc[p].pc = "val_adapter"
  /\ UNCHANGED <<chains, resources, nextChain, nextStep, nextExec, okUpdates, input, output>>
  /\ Finish(p, [Ok("validate", proc[p].id) EXCEPT
                  !.report = ManagerValidateChain(proc[p].chain,
                                AdapterValidateChain(chains[proc[p].id], resources)),
                  !.first = proc[p].chain, !.second = chains[proc[p].id],
                  !.version = proc[p].version])
  /\ Track /\ TrackIds /\ UNCHANGED ops

\* ChainManager.executeChain up to the getChain of adapter.validateChain
ExecuteStart(p, id) ==
  /\ Free(p, "execute")
  /\ nextExec + InFlight("execute") <= MaxExec * Cardinality({q \in Procs : "execute" \in OpsOf(q)})
  /\ UNCHANGED <<chains, resources, nextChain, nextStep, nextExec, okUpdates, input, output>>
  /\ IF id = 0 THEN Finish(p, Thrown("execute", id, "schema"))
     ELSE proc' = [proc EXCEPT ![p] = [Idle EXCEPT !.op = "execute", !.pc = "exe_finish",
                                                       !.id = id, !.chain = chains[id]]]
          /\ last' = NoCall
  /\ Track /\ TrackIds /\ UNCHANGED ops

\* the resource lookups of adapter.validateChain, the validity test of
\* ChainManager.executeChain, then LangfuseAdapter.executeChain
ExecuteFinish(p) ==
  /\ proc[p].pc = "exe_finish"
  /\ UNCHANGED <<chains, resources, nextChain, nextStep, okUpdates, input, output>>
  /\ LET validation == AdapterValidateChain(proc[p].chain, resources)
         chain == chains[proc[p].id]
     IN IF ~validation.valid
        THEN Finish(p, [Thrown("execute", proc[p].id, "validation") EXCEPT !.errors = validation.errors])
             /\ UNCHANGED nextExec
        ELSE IF chain = NoChain
        THEN Finish(p, Thrown("execute", proc[p].id, "not_found")) /\ UNCHANGED nextExec
        ELSE /\ Finish(p, [Ok("execute", proc[p].id) EXCEPT !.exec = AdapterExecuteChain(chain, nextExec),
                                                    !.first = proc[p].chain, !.second = chain])
             /\ nextExec' = nextExec + 1
  /\ Track /\ TrackIds /\ UNCHANGED ops

\* a prompt is deleted on the Langfuse side (deletePrompt) / created again
\* under its name (createPrompt)
DeleteResource(r) ==
  /\ r \in resources
  /\ resources' = resources \ {r}
  /\ last' = NoCall
  /\ UNCHANGED <<chains, nextChain, nextStep, nextExec, proc, okUpdates, input, output>>
  /\ Track /\ TrackIds /\ UNCHANGED ops

CreateResource(r) ==
  /\ r \notin resources
  /\ resources' = resources \cup {r}
  /\ last' = NoCall
  /\ UNCHANGED <<chains, nextChain, nextStep, nextExec, proc, okUpdates, input, output>>
  /\ Track /\ TrackIds /\ UNCHANGED ops

StoreInit ==
  /\ chains = [i \in ChainIds |-> NoChain]
  /\ resources = ResIds
  /\ nextChain = 1 /\ nextStep = 1 /\ nextExec = 1
  /\ proc = [p \in Procs |-> Idle]
  /\ last = NoCall
  /\ okUpdates = 0
  /\ prev = NoPrev
  /\ returned = <<>>

NoOutput ==
  [circularDeps |-> Returned(<<>>), unreachable |-> Returned(<<>>), report |-> RetrieveFailed,
   plan |-> NoPlan, done |-> FALSE]

Init == StoreInit /\ ops \in CallerOps /\ input = NoChain /\ output = NoOutput

Next ==
  \/ \E p \in Procs, req \in CreateRequests : CreateChain(p, req)
  \/ \E p \in Procs, id \in ChainIdInputs, req \in UpdateRequests : UpdateStart(p, id, req)
  \/ \E p \in Procs : UpdateAdapter(p)
  \/ \E p \in Procs : UpdateWrite(p)
  \/ \E p \in Procs, id \in ChainIdInputs : DeleteStart(p, id)
  \/ \E p \in Procs : DeleteAdapter(p)
  \/ \E p \in Procs, id \in ChainIdInputs, version \in VersionInputs : ValidateStart(p, id, version)
  \/ \E p \in Procs : ValidateAdapter(p)
  \/ \E p \in Procs, id \in ChainIdInputs : ExecuteStart(p, id)
  \/ \E p \in Procs : ExecuteFinish(p)
  \/ \E r \in Dynamic : DeleteResource(r)
  \/ \E r \in Dynamic : CreateResource(r)

Spec == Init /\ [][Next]_vars

----------------------------------------------------------------------------
(* The graph checks on generated chains *)

Analyze ==
  /\ input # NoChain /\ ~output.done
  /\ output' = [circularDeps |-> detectCircularDependencies(input.steps, input.dataMapping),
                unreachable |-> findUnreachableSteps(input.steps, input.dataMapping),
                report |-> ManagerValidateChain(input, AdapterValidateChain(input, resources)),
                plan |-> getChainExecutionPlan(input),
                done |-> TRUE]
  /\ UNCHANGED <<chains, resources, nextChain, nextStep, nextExec, proc, last, okUpdates, input,
                 prev, ops, returned>>

GraphInit ==
  /\ StoreInit /\ ops = <<{}, {}, {}>>
  /\ \/ \E names \in NameSeqs : \E n \in 0..Len(names) : \E z \in 0..n :
          \E eo \in ExecutionOrder : \E dm \in SeqsUpTo(GEdges(names), MaxGMap) :
             input = GraphInput(names, n, z, eo, dm)
     \/ \E names \in NameSeqs : \E n \in 1..Len(names) : \E ord \in [1..n -> 0..MaxOrder] :
          \E eo \in ExecutionOrder : \E dm \in SeqsUpTo(GEdges(names), 1) :
             input = OrderedInput(names, ord, eo, dm)
     \/ \E z \in 0..Len(ProtoSeq4) : \E eo \in ExecutionOrder :
          \E dm \in SeqsUpTo({Edge(ProtoSeq4[1], ProtoSeq4[2]), Edge(ProtoSeq4[2], ProtoSeq4[1])}, 2) :
             input = GraphInput(ProtoSeq4, Len(ProtoSeq4), z, eo, dm)
  /\ output = NoOutput

GraphNext == Analyze

SpecGraph == GraphInit /\ [][GraphNext]_vars

----------------------------------------------------------------------------
(* Graph notions used to state the properties *)

StepNames(chain) == {chain.steps[i].name : i \in 1..Len(chain.steps)}

NameList(chain) == [i \in 1..Len(chain.steps) |-> chain.steps[i].name]

MapEdges(chain) == {<<chain.dataMapping[k].fromStep, chain.dataMapping[k].toStep>> :
                      k \in 1..Len(chain.dataMapping)}

Successors(S, E) == {e[2] : e \in {x \in E : x[1] \in S}}

\* least set containing S and closed under the edges E
RECURSIVE Closure(_, _)
Closure(S, E) ==
  LET T == S \cup Successors(S, E) IN IF T = S THEN S ELSE Closure(T, E)

\* v is reachable from u along one or more edges of E
Reaches(u, v, E) == v \in Closure(Successors({u}, E), E)

\* a directed cycle of length >= 2 all of whose nodes are step names
HasStepCycle(chain) ==
  LET E == {e \in MapEdges(chain) : e[1] \in StepNames(chain) /\ e[2] \in StepNames(chain)}
  IN \E u, v \in StepNames(chain) : u # v /\ Reaches(u, v, E) /\ Reaches(v, u, E)

HasError(report, kind) == \E i \in 1..Len(report.errors) : report.errors[i].kind = kind

HasWarning(report, kind) == \E i \in 1..Len(report.warnings) : report.warnings[i].kind = kind

----------------------------------------------------------------------------
(* Properties *)

\* no step name and no mapping endpoint of the chain is a name of ProtoNames
PlainNames(chain) ==
  /\ StepNames(chain) \cap ProtoNames = {}
  /\ \A e \in MapEdges(chain) : e[1] \notin ProtoNames /\ e[2] \notin ProtoNames

\* C1: for a stored chain whose dataMapping holds a directed cycle of length
\* >= 2 among its step names, validateChain (run on the chain undisturbed)
\* reports valid = false with a circular-dependency entry in errors.
C1_CycleReported ==
  (last.op = "validate" /\ last.status = "ok" /\ last.first = last.second
     /\ last.first # NoChain /\ HasStepCycle(last.first))
    => (~last.report.valid /\ HasError(last.report, "circular"))

\* the same on generated chains, for every order of the step list and every
\* choice of the order-0 step, when no name is a property of Object.prototype
CycleReportedOnPlainNames ==
  (output.done /\ HasStepCycle(input) /\ PlainNames(input)) =>
     (~output.report.valid /\ HasError(output.report, "circular"))

\* the cycle is among the last steps only and the first step of the list is
\* not the order-0 step
CycleAwayFromEntry ==
  /\ output.done /\ NameList(input) = <<"a", "b", "c", "d">>
  /\ input.steps[1].order # 0
  /\ MapEdges(input) = {<<"c", "d">>, <<"d", "c">>}
  /\ HasError(output.report, "circular")

\* what ChainManager.validateChain reports on a chain read now
ReportOf(chain) == ManagerValidateChain(chain, AdapterValidateChain(chain, resources))

Stored == {id \in ChainIds : chains[id] # NoChain}

SelfLoops(chain) == {e \in MapEdges(chain) : e[1] = e[2]}

\* C2: executeChain returns no ChainExecutionResult for a chain on which
\* ChainManager.validateChain reports valid = false: whenever executeChain
\* has resolved on a chain that did not change during the call, validateChain
\* reports that chain valid.
C2_NoRunWhenInvalid ==
  (last.op = "execute" /\ last.status = "ok" /\ last.first = last.second
     /\ chains[last.id] = last.second)
    => ReportOf(last.second).valid

\* C3: no stored chain ever holds a dataMapping edge with fromStep = toStep.
C3_NoSelfLoopStored == \A id \in Stored : SelfLoops(chains[id]) = {}

\* C4: both endpoints of every dataMapping edge of every stored chain are
\* names of steps of that chain's current step list.
C4_EndpointsAreSteps ==
  \A id \in Stored : \A e \in MapEdges(chains[id]) :
     e[1] \in StepNames(chains[id]) /\ e[2] \in StepNames(chains[id])

\* C5: a createChain or updateChain call that rejects leaves the chain store
\* as it was: the step that rejects changes no chain, and every step that
\* does change a chain completes its call with a resolved outcome.
C5_RejectKeepsStore ==
  [][ /\ (last'.status = "thrown" /\ last'.op \in {"create", "update"}) => chains' = chains
      /\ chains' # chains => last'.status = "ok" ]_vars

\* an updateChain rejected for its data mapping while the chain is stored
C5_Witness ==
  /\ last.op = "update" /\ last.status = "thrown" /\ last.error = "mapping"
  /\ last.id \in Stored

\* C6: overlapping updateChain calls on one chain id are serialized: once
\* no update is in flight, the stored chain carries the version that the
\* resolved updates give when run one after the other (1.k.0 after k
\* updates of a chain created as 1.0.0).
C6_UpdatesSerialized ==
  \A id \in Stored :
     InFlight("update") = 0 => chains[id].version = <<1, okUpdates, 0>>

\* C7: a validateChain or executeChain call works on one snapshot of the
\* chain: the chain read by the checks of the adapter is the chain read by
\* the manager's own checks, and the chain executed is the chain validated.
C7_SingleSnapshot ==
  (last.op \in {"validate", "execute"} /\ last.status = "ok") => last.first = last.second

\* C8: for a chain of at least two steps with one order-0 step,
\* findUnreachableSteps returns exactly the names of the steps not reachable
\* from the order-0 step along the dataMapping edges, in step-list order; for
\* steps start (order 0), mid, end, orphan with start -> mid, mid -> end it
\* returns exactly <<orphan>>.
C8_Unreachable ==
  (output.done /\ Len(input.steps) >= 2
   /\ Cardinality({i \in 1..Len(input.steps) : input.steps[i].order = 0}) = 1) =>
     LET entry == CHOOSE n \in StepNames(input) :
                    \E i \in 1..Len(input.steps) : input.steps[i].name = n /\ input.steps[i].order = 0
         reached == Closure({entry}, MapEdges(input))
     IN /\ output.unreachable = Returned(SelectSeq(NameList(input), LAMBDA n : n \notin reached))
        /\ (NameList(input) = <<"a", "b", "c", "d">> /\ entry = "a"
            /\ input.dataMapping = <<Edge("a", "b"), Edge("b", "c")>>)
              => output.unreachable = Returned(<<"d">>)

\* the same when no name is a property of Object.prototype
UnreachableExactOnPlainNames == PlainNames(input) => C8_Unreachable

OrphanReported ==
  /\ output.done
  /\ NameList(input) = <<"a", "b", "c", "d">> /\ input.steps[1].order = 0
  /\ input.dataMapping = <<Edge("a", "b"), Edge("b", "c")>>
  /\ output.unreachable = Returned(<<"d">>)

\* C9: in every report validateChain resolves with, valid is true exactly
\* when errors is empty, whatever the warnings are.
C9_ValidIffNoErrors ==
  (last.op = "validate" /\ last.status = "ok") =>
     (last.report.valid <=> last.report.errors = <<>>)

\* a valid report that carries a warning
C9_Witness ==
  /\ last.op = "validate" /\ last.status = "ok"
  /\ last.report.valid /\ HasWarning(last.report, "unreachable")

ValidateStep ==
  \/ last'.op = "validate"
  \/ \E p \in Procs : proc'[p] # proc[p] /\ (proc[p].op = "validate" \/ proc'[p].op = "validate")

C12_EmptyChainInvalid ==
  (output.done /\ Len(input.steps) = 0)
    => ~output.report.valid /\ HasError(output.report, "no_steps")

C12_Witness ==
  /\ output.done /\ Len(input.steps) = 0 /\ Len(input.dataMapping) > 0
  /\ HasError(output.report, "no_steps")

OrderValues(chain) == {chain.steps[i].order : i \in 1..Len(chain.steps)}

\* the pairs of orders in use that follow each other and differ by more than 1
GapValues(chain) ==
  {g \in OrderValues(chain) \X OrderValues(chain) :
     g[2] - g[1] > 1 /\ ~\E u \in OrderValues(chain) : g[1] < u /\ u < g[2]}

OrderOfName(chain, name) ==
  chain.steps[CHOOSE i \in 1..Len(chain.steps) : chain.steps[i].name = name].order

HasMapCycle(chain) ==
  \E e \in MapEdges(chain) : Reaches(e[1], e[1], MapEdges(chain))

GapWarningsExact(chain, report) ==
  LET gaps == {i \in 1..Len(report.warnings) : report.warnings[i].kind = "gap"}
      pair(i) == <<OrderOfName(chain, report.warnings[i].args[1]),
                   OrderOfName(chain, report.warnings[i].args[2])>>
  IN IF chain.executionOrder = "sequential"
     THEN /\ \A i \in gaps : pair(i) \in GapValues(chain)
          /\ \A g \in GapValues(chain) : Cardinality({i \in gaps : pair(i) = g}) = 1
          /\ ~HasMapCycle(chain) => report.valid
     ELSE gaps = {}

\* C13: for a sequential chain, validateChain returns exactly one gap warning
\* for each pair of order-adjacent steps whose orders differ by more than 1,
\* naming the two steps (for the orders {0,2,3}: the steps of order 0 and 2),
\* and with resolvable resources and no mapping cycle the chain is valid; for a
\* parallel chain it returns no gap warning.
C13_GapWarnings ==
  (output.done /\ Len(input.steps) > 0) => GapWarningsExact(input, output.report)

\* the same on chains none of whose names is a property of Object.prototype
GapWarningsOnPlainNames ==
  (output.done /\ Len(input.steps) > 0 /\ PlainNames(input))
    => GapWarningsExact(input, output.report)

\* the chain of the claim: orders 0, 2, 3, and a mapping between two steps
GapExample ==
  /\ output.done /\ input.executionOrder = "sequential" /\ PlainNames(input)
  /\ [i \in 1..Len(input.steps) |-> input.steps[i].order] = <<0, 2, 3>>
  /\ Len(input.dataMapping) = 1
  /\ output.report.valid
  /\ \E i \in 1..Len(output.report.warnings) :
        output.report.warnings[i] = Err("gap", <<"a", "b">>)

\* C14: the step orders of every stored sequential chain of n steps are
\* exactly 0..n-1, each used once.
C14_SequentialOrders ==
  \A id \in Stored :
     chains[id].executionOrder = "sequential" =>
        \A k \in 0..(Len(chains[id].steps) - 1) :
           Cardinality({i \in 1..Len(chains[id].steps) : chains[id].steps[i].order = k}) = 1

\* an update has stored the steps of a request that lists them out of order
C14_Witness ==
  /\ last.op = "update" /\ last.status = "ok" /\ last.id \in Stored
  /\ chains[last.id].executionOrder = "sequential"
  /\ NameList(chains[last.id]) = <<"b", "a">>

DistinctNames(steps) == \A i, j \in 1..Len(steps) : steps[i].name = steps[j].name => i = j

\* C20: the step names of every stored chain are pairwise distinct, and an
\* update request with two steps of one name never reaches the adapter (a
\* create request is stored or rejected in one step, so the store shows it).
C20_DistinctStepNames ==
  /\ \A id \in Stored : DistinctNames(chains[id].steps)
  /\ \A p \in Procs :
        (proc[p].pc \in {"upd_adapter", "upd_write"} /\ IsSome(proc[p].req.steps))
          => DistinctNames(proc[p].req.steps[1])

\* a request with a repeated step name has just been rejected, a chain being stored
C20_Witness ==
  /\ last.op \in {"create", "update"} /\ last.status = "thrown" /\ last.error = "steps"
  /\ \E i \in 1..Len(last.errors) : last.errors[i].kind = "duplicate_name"
  /\ Stored # {}

C17_StatusAggregates ==
  (last.op = "execute" /\ last.status = "ok")
  => LET r == last.exec.stepResults
         some(st) == \E i \in 1..Len(r) : r[i].status = st
     IN /\ last.exec.status = "success" => \A i \in 1..Len(r) : r[i].status = "success"
        /\ (Len(r) > 0 /\ r[1].status = "error") => last.exec.status = "error"
        /\ (Len(r) > 0 /\ r[1].status # "error" /\ some("success") /\ some("error"))
             => last.exec.status = "partial"

C17_Witness ==
  /\ last.op = "execute" /\ last.status = "ok" /\ last.exec.status = "success"
  /\ Len(last.exec.stepResults) = 2
  /\ \A i \in 1..2 : last.exec.stepResults[i].status = "success"

\* C18: the executionIds executeChain has returned are pairwise distinct.
C18_FreshExecutionIds ==
  \A i, j \in 1..Len(returned) : returned[i].executionId = returned[j].executionId => i = j

\* two executions of one chain that overlapped in time have both returned
C18_Witness ==
  /\ Len(returned) = 2 /\ returned[1].overlapped
  /\ last.op = "execute" /\ last.status = "ok" /\ last.id \in Stored

IdsOf(chain, names) == {chain.steps[i].id : i \in {j \in 1..Len(chain.steps) : chain.steps[j].name \in names}}

Range(seq) == {seq[i] : i \in 1..Len(seq)}

\* C19: getChainExecutionPlan returns the chain's executionOrder and one entry
\* per step, in step-list order; the dependencies of an entry are the ids of
\* the steps with a mapping to its step, its dependents the ids of the steps
\* its step has a mapping to; a mapping that names no step of the chain adds
\* nothing.
C19_ExecutionPlan ==
  output.done =>
    /\ output.plan.executionOrder = input.executionOrder
    /\ Len(output.plan.steps) = Len(input.steps)
    /\ \A i \in 1..Len(input.steps) :
          LET entry == output.plan.steps[i]
              step == input.steps[i]
          IN /\ entry.stepId = step.id /\ entry.stepName = step.name /\ entry.order = step.order
             /\ Range(entry.dependencies)
                  = IdsOf(input, {e[1] : e \in {x \in MapEdges(input) : x[2] = step.name}})
             /\ Range(entry.dependents)
                  = IdsOf(input, {e[2] : e \in {x \in MapEdges(input) : x[1] = step.name}})

\* steps a, b, c with a -> b and a mapping to d, which is no step: c is isolated
C19_Witness ==
  /\ output.done /\ NameList(input) = <<"a", "b", "c">>
  /\ input.dataMapping = <<Edge("a", "b"), Edge("a", "d")>>
  /\ output.plan.steps[1].dependents = <<input.steps[2].id>>
  /\ output.plan.steps[2].dependencies = <<input.steps[1].id>>
  /\ output.plan.steps[3].dependencies = <<>> /\ output.plan.steps[3].dependents = <<>>

\* the names the report's unreachable-steps warning lists (none without one)
WarnedUnreachable(report) ==
  UNION {Range(report.warnings[i].args) : i \in {k \in 1..Len(report.warnings) :
                                                  report.warnings[k].kind = "unreachable"}}

\* two steps whose mappings are exactly the two edges of a cycle between them
TwoCycle(chain) ==
  \E u, v \in StepNames(chain) : u # v /\ MapEdges(chain) = {<<u, v>>, <<v, u>>}

\* the steps reachable from the order-0 steps along the mapping edges
ReachedFromEntry(chain) ==
  Closure({chain.steps[i].name : i \in {k \in 1..Len(chain.steps) : chain.steps[k].order = 0}},
          MapEdges(chain))

\* C21: for a chain of four steps of which two are joined by the mappings
\* u -> v and v -> u and the other two take part in no mapping, validateChain
\* reports the circular-dependency error, and its unreachable-steps warning
\* lists exactly the steps not reachable from the order-0 step: the cycle
\* changes nothing for the two other steps.
C21_CycleIsolated ==
  (output.done /\ Len(input.steps) = 4 /\ TwoCycle(input)) =>
     /\ ~output.report.valid /\ HasError(output.report, "circular")
     /\ WarnedUnreachable(output.report) = StepNames(input) \ ReachedFromEntry(input)

\* the same when no name is a property of Object.prototype
CycleIsolatedOnPlainNames == PlainNames(input) => C21_CycleIsolated

\* the cycle a <-> b with the entry step c: the warning lists a, b and d
CycleIsolatedExample ==
  /\ output.done /\ NameList(input) = <<"a", "b", "c", "d">>
  /\ input.steps[3].order = 0 /\ TwoCycle(input)
  /\ HasError(output.report, "circular")
  /\ WarnedUnreachable(output.report) = {"a", "b", "d"}

\* the steps of the chain that lie on a mapping cycle or that a mapping makes
\* depend on a name that is no step of the chain
CyclicOrUnresolved(chain) ==
  {i \in 1..Len(chain.steps) :
     \/ Reaches(chain.steps[i].name, chain.steps[i].name, MapEdges(chain))
     \/ \E e \in MapEdges(chain) : e[2] = chain.steps[i].name /\ e[1] \notin StepNames(chain)}

\* C22: executeChain on a parallel chain resolves with a result in which every
\* step that lies on a mapping cycle, or depends on a missing step, has the
\* status skipped.
C22_CyclicStepsSkipped ==
  (last.op = "execute" /\ last.status = "ok" /\ last.second.executionOrder = "parallel") =>
     /\ Len(last.exec.stepResults) = Len(last.second.steps)
     /\ \A i \in CyclicOrUnresolved(last.second) : last.exec.stepResults[i].status = "skipped"

C24_ReachabilitySkipped ==
  (output.done /\ \/ input.executionOrder = "parallel"
                  \/ \A i \in 1..Len(input.steps) : input.steps[i].order # 0) =>
     ~HasWarning(output.report, "unreachable")

\* C25: a validateChain call with an empty chain id, or with a version
\* argument that is no valid version, throws instead of resolving with a report.
C25_UsageErrorsThrown ==
  (last.op = "validate"
   /\ (last.id = 0 \/ (IsSome(last.version) /\ ~isValidVersion(last.version[1])))) =>
     last.status = "thrown"

\* the empty chain id is refused
EmptyIdThrown ==
  (last.op = "validate" /\ last.id = 0) => (last.status = "thrown" /\ last.error = "id")

EmptyIdExample == last.op = "validate" /\ last.id = 0 /\ last.status = "thrown"

\* C26: after a createChain or updateChain that resolved and whose request
\* gave steps, every stored step has the order its request gave it (the
\* request's orders are a permutation of 0..n-1, or it would have thrown).
C26_OrderFieldKept ==
  (last.op \in {"create", "update"} /\ last.status = "ok" /\ IsSome(last.steps)) =>
     LET stored == chains[last.id].steps
         req == last.steps[1]
     IN /\ Len(stored) = Len(req)
        /\ \A i \in 1..Len(req) : \E j \in 1..Len(stored) :
              stored[j].name = req[i].name /\ stored[j].order = req[i].order

\* C27: for every step name that a chain holds both before and after an
\* updateChain that resolved, the step has the same id before and after.
C27_StepIdsKept ==
  (last.op = "update" /\ last.status = "ok") =>
     \A i \in 1..Len(last.second.steps) : \A j \in 1..Len(chains[last.id].steps) :
        last.second.steps[i].name = chains[last.id].steps[j].name
          => last.second.steps[i].id = chains[last.id].steps[j].id

\* C28: every edge u -> v that detectCircularDependencies reports is a
\* dataMapping edge and u is reachable from v along the mapping edges.
C28_ReportedEdgesCloseCycles ==
  (output.done /\ ~output.circularDeps.threw) =>
     \A k \in 1..Len(output.circularDeps.value) :
        LET e == output.circularDeps.value[k]
        IN /\ e \in MapEdges(input)
           /\ (e[1] = e[2] \/ Reaches(e[2], e[1], MapEdges(input)))

\* C29: in every execution plan no step id occurs twice in the dependencies
\* of an entry, nor in its dependents.
C29_PlanListsAreSets ==
  output.done =>
     \A i \in 1..Len(output.plan.steps) :
        /\ Cardinality(Range(output.plan.steps[i].dependencies)) = Len(output.plan.steps[i].dependencies)
        /\ Cardinality(Range(output.plan.steps[i].dependents)) = Len(output.plan.steps[i].dependents)

\* a validateChain call that resolved on a chain as createChain stored it,
\* undisturbed, all resources of its steps present
ValidatedAsCreated ==
  /\ last.op = "validate" /\ last.status = "ok"
  /\ last.first = last.second /\ last.first # NoChain
  /\ last.first.version = <<1, 0, 0>>
  /\ validateResourceReferences(last.first.steps, resources)

\* some step name lies on a mapping cycle (a self loop included)
HasAnyCycle(chain) == \E n \in StepNames(chain) : Reaches(n, n, MapEdges(chain))

\* C30: validateChain on a chain as createChain accepted and stored it, with
\* the resources of its steps present, reports valid = true; for the linear
\* three-step chain it reports no error and no warning; it reports a circular
\* dependency only for a chain whose mappings hold a cycle.
C30_AcceptedChainsValid ==
  ValidatedAsCreated =>
     /\ last.report.valid
     /\ (Len(last.first.steps) = 3 /\ ~HasAnyCycle(last.first))
          => last.report = [valid |-> TRUE, errors |-> <<>>, warnings |-> <<>>]
     /\ HasError(last.report, "circular") => HasAnyCycle(last.first)

\* the same for the chains createChain stored without a mapping cycle and
\* without a name of Object.prototype
AcyclicAcceptedChainsValid ==
  (~HasAnyCycle(last.first) /\ PlainNames(last.first)) => C30_AcceptedChainsValid

\* the linear chain b -> a -> c validated: valid, no errors, no warnings
LinearChainExample ==
  /\ ValidatedAsCreated /\ NameList(last.first) = <<"b", "a", "c">>
  /\ last.first.dataMapping = <<Edge("b", "a"), Edge("a", "c")>>
  /\ last.report = [valid |-> TRUE, errors |-> <<>>, warnings |-> <<>>]

\* a circular-dependency error is reported only for a chain with a cycle
CircularOnlyWithCycle ==
  (output.done /\ HasError(output.report, "circular")) =>
     \E n \in UNION {{e[1], e[2]} : e \in MapEdges(input)} : Reaches(n, n, MapEdges(input))

====
